---- MODULE Spec2Model ----
(***************************************************************************)
(* multistream-select, listener side                                       *)
(* (misc/multistream-select/src/protocol/listener.rs).                     *)
(*                                                                         *)
(* A frame is a sequence of bytes (naturals).  The framed channel          *)
(* (LengthDelimited over a socket) is modelled by an inbound queue of      *)
(* frames with an open / eof / err status, an outbound buffer of accepted  *)
(* frames and the history of frames written to the socket.                 *)
(***************************************************************************)
EXTENDS Naturals, Sequences, FiniteSets

\* ------------------------------------------------------------------ bounds

\* Frames the peer may have in flight towards the listener.
MaxInFlight == 1
\* Responses the caller of an established Listener submits.
MaxResponses == 1
\* Longest frame of the exhaustive frame set of the codec specification.
MaxLen == 3
\* Frames already queued for an established Listener in the order
\* specification.
MaxQueued == 2

\* ------------------------------------------------------------------- bytes

\* b'/' and b'\n' (listener.rs:103)
SLASH == 47
NL == 10

\* Option<T>: None is the empty sequence, Some(x) the one-element sequence.
None == <<>>
Some(x) == <<x>>

Min(a, b) == IF a < b THEN a ELSE b

\* "/multistream/1.0.0\n"
MSG_MULTISTREAM_1_0 ==
  <<47, 109, 117, 108, 116, 105, 115, 116, 114, 101, 97, 109, 47,
    49, 46, 48, 46, 48, 10>>
\* "ls\n"
MSG_LS == <<108, 115, 10>>
\* "na\n"
MSG_PROTOCOL_NA == <<110, 97, 10>>

\* Header::Multistream10.encode(&mut frame) (listener.rs:159-160)
HeaderEncode == MSG_MULTISTREAM_1_0

\* ------------------------------------------------------------------- codec

\* msg.get(0)
Get0(msg) == IF Len(msg) > 0 THEN Some(msg[1]) ELSE None
\* msg.last()
Last(msg) == IF Len(msg) > 0 THEN Some(msg[Len(msg)]) ELSE None
\* msg.split_to(at): the first `at` bytes
SplitTo(msg, at) == SubSeq(msg, 1, at)

Req(kind, name) == [kind |-> kind, name |-> name]

DecodeRequest_or(msg) ==
  IF Get0(msg) = Some(SLASH) \/ Last(msg) = Some(NL)
  THEN Req("Protocol", SplitTo(msg, Len(msg) - 1))
  ELSE IF msg = MSG_LS THEN Req("ListProtocols", <<>>)
  ELSE Req("UnknownMessage", <<>>)

DecodeRequest_keepnl(msg) ==
  IF Get0(msg) = Some(SLASH) /\ Last(msg) = Some(NL)
  THEN Req("Protocol", SplitTo(msg, Len(msg)))
  ELSE IF msg = MSG_LS THEN Req("ListProtocols", <<>>)
  ELSE Req("UnknownMessage", <<>>)

DecodeRequest_trim2(msg) ==
  IF Get0(msg) = Some(SLASH) /\ Last(msg) = Some(NL)
  THEN Req("Protocol", SplitTo(msg, IF Len(msg) > 2 THEN Len(msg) - 2 ELSE Len(msg) - 1))
  ELSE IF msg = MSG_LS THEN Req("ListProtocols", <<>>)
  ELSE Req("UnknownMessage", <<>>)

\* The decoding of a received frame in Listener::poll (listener.rs:103-115).
DecodeRequest(msg) ==
  IF Get0(msg) = Some(SLASH) /\ Last(msg) = Some(NL)
  THEN Req("Protocol", SplitTo(msg, Len(msg) - 1))
  ELSE IF msg = MSG_LS THEN Req("ListProtocols", <<>>)
  ELSE Req("UnknownMessage", <<>>)

HeaderMatches_present(msg) == msg # None

\* msg.as_ref().map(|b| &b[..]) == Some(MSG_MULTISTREAM_1_0) (listener.rs:154)
HeaderMatches(msg) == msg = Some(MSG_MULTISTREAM_1_0)

\* Response<N>
Protocol(name) == [kind |-> "Protocol", name |-> name]
ProtocolNotAvailable == [kind |-> "ProtocolNotAvailable", name |-> <<>>]

\* Response::encode: Ok(frame) or Err(InvalidProtocolName).
ResponseEncode(response) ==
  IF response.kind = "Protocol"
  THEN IF Get0(response.name) = Some(SLASH)
       THEN [ok |-> TRUE, frame |-> response.name \o <<NL>>]
       ELSE [ok |-> FALSE, frame |-> <<>>]
  ELSE [ok |-> TRUE, frame |-> MSG_PROTOCOL_NA]

\* ---------------------------------------------------------- framed channel

\* LengthDelimited as Stream: poll.  An error of the transport is reported
\* at once; queued frames are delivered before end-of-stream.
FramedPoll(q, st) ==
  IF st = "err" THEN [kind |-> "Err", frame |-> <<>>, rest |-> q]
  ELSE IF q # <<>> THEN [kind |-> "Frame", frame |-> Head(q), rest |-> Tail(q)]
  ELSE IF st = "eof" THEN [kind |-> "Eos", frame |-> <<>>, rest |-> q]
  ELSE [kind |-> "NotReady", frame |-> <<>>, rest |-> q]

\* Writing j buffered frames to the socket.
Flush(buf, w, j) ==
  LET n == Min(j, Len(buf))
  IN [buf |-> SubSeq(buf, n + 1, Len(buf)), wire |-> w \o SubSeq(buf, 1, n)]

\* LengthDelimited as Sink: start_send.  Whether the channel has room is its
\* own business (`accept`); a refused frame leaves the channel as it was.
FramedStartSend(buf, w, err, frame, accept) ==
  IF err THEN [res |-> "Err", buf |-> buf, wire |-> w]
  ELSE IF accept THEN [res |-> "Ready", buf |-> Append(buf, frame), wire |-> w]
  ELSE [res |-> "NotReady", buf |-> buf, wire |-> w]

\* LengthDelimited as Sink: poll_complete.  The socket takes k frames.
FramedPollComplete(buf, w, err, k) ==
  IF err THEN [res |-> "Err", buf |-> buf, wire |-> w]
  ELSE LET f == Flush(buf, w, k)
       IN [res |-> IF f.buf = <<>> THEN "Ready" ELSE "NotReady",
           buf |-> f.buf, wire |-> f.wire]

\* ------------------------------------------------------------------- state

VARIABLES
  inQ,         \* frames that arrived for the listener and are not yet read
  inState,     \* "open" | "eof" | "err": the inbound half of the transport
  outErr,      \* the outbound half of the transport has failed
  outBuf,      \* frames the channel accepted and has not yet written
  wire,        \* frames written to the socket, oldest first
  state,       \* ListenerFutureState: "Await" | "Reply" | "Undefined"
  sendItem,    \* sink::Send in Reply still holds the header frame
  result,      \* what the ListenerFuture resolved to, "Pending" before
  suspended,   \* ListenerFuture::poll has returned NotReady at least once
  panicked,    \* the future was polled after completion
  firstRecv,   \* what the handshake took from the channel: [seen, msg]
  lastReq,     \* what the last Listener::poll returned
  lastFrame,   \* Some(frame) that call took from the channel, or None
  eosSeen,     \* the channel has reported end-of-stream to Listener::poll
  unknownSeen, \* Listener::poll has returned Err(UnknownMessage)
  held,        \* Some(response) the caller is about to start_send, or None
  nResp,       \* responses the caller has picked so far
  refused,     \* the held response has been handed back NotReady
  lastSend,    \* what the last Listener::start_send returned
  sentOk,      \* the responses start_send answered Ready for, in order
  scenario,    \* "free" | "happy" | "wrong_proto_name"
  dState,      \* the dialer's phase
  dRead,       \* frames of `wire` the dialer has read
  dCand,       \* the protocol name the dialer proposes
  dResult,     \* the dialer's outcome
  aAgreed      \* Some(name) the acceptor's caller finished with, or None

chanVars == <<inQ, inState, outErr, outBuf, wire>>
futVars == <<state, sendItem, result, suspended, panicked, firstRecv>>
reqVars == <<lastReq, lastFrame, eosSeen, unknownSeen>>
sendVars == <<held, nResp, refused, lastSend, sentOk>>
pairVars == <<scenario, dState, dRead, dCand, dResult, aAgreed>>
vars == <<chanVars, futVars, reqVars, sendVars, pairVars>>

\* All frames the channel accepted from the listener, in order.
Outbound == wire \o outBuf

\* ------------------------------------------------------------ ListenerFuture

Step(st, ret, item, q, buf, w, first) ==
  [state |-> st, ret |-> ret, item |-> item, inQ |-> q, buf |-> buf,
   wire |-> w, first |-> first]

SendPoll_keepItem(item, buf, w, err, j, k) ==
  LET s == IF item THEN FramedStartSend(buf, w, err, HeaderEncode, j)
           ELSE [res |-> "Ready", buf |-> buf, wire |-> w]
  IN IF s.res # "Ready"
     THEN [res |-> s.res, item |-> item, buf |-> s.buf, wire |-> s.wire]
     ELSE LET c == FramedPollComplete(s.buf, s.wire, err, k)
          IN [res |-> c.res, item |-> item, buf |-> c.buf, wire |-> c.wire]

\* sink::Send::poll on the framed channel: start_send the item if it is
\* still held, then poll_complete.
SendPoll(item, buf, w, err, j, k) ==
  LET s == IF item THEN FramedStartSend(buf, w, err, HeaderEncode, j)
           ELSE [res |-> "Ready", buf |-> buf, wire |-> w]
  IN IF s.res # "Ready"
     THEN [res |-> s.res, item |-> item, buf |-> s.buf, wire |-> s.wire]
     ELSE LET c == FramedPollComplete(s.buf, s.wire, err, k)
          IN [res |-> c.res, item |-> FALSE, buf |-> c.buf, wire |-> c.wire]

ReplyBranch_early(item, q, buf, w, err, first, j, k) ==
  LET p == SendPoll(item, buf, w, err, j, k)
  IN IF p.res = "Err"
     THEN Step("Undefined", "IoError", p.item, q, p.buf, p.wire, first)
     ELSE Step("Undefined", "Listener", p.item, q, p.buf, p.wire, first)

ReplyBranch_forgetState(item, q, buf, w, err, first, j, k) ==
  LET p == SendPoll(item, buf, w, err, j, k)
  IN IF p.res = "Err"
     THEN Step("Undefined", "IoError", p.item, q, p.buf, p.wire, first)
     ELSE IF p.res = "NotReady"
     THEN Step("Undefined", "NotReady", p.item, q, p.buf, p.wire, first)
     ELSE Step("Undefined", "Listener", p.item, q, p.buf, p.wire, first)

\* ListenerFutureState::Reply (listener.rs:164-176).
ReplyBranch(item, q, buf, w, err, first, j, k) ==
  LET p == SendPoll(item, buf, w, err, j, k)
  IN IF p.res = "Err"
     THEN Step("Undefined", "IoError", p.item, q, p.buf, p.wire, first)
     ELSE IF p.res = "NotReady"
     THEN Step("Reply", "NotReady", p.item, q, p.buf, p.wire, first)
     ELSE Step("Undefined", "Listener", p.item, q, p.buf, p.wire, first)

AwaitBranch_forgetState(item, q, st, buf, w, err, first, j, k) ==
  LET r == FramedPoll(q, st)
      msg == IF r.kind = "Frame" THEN Some(r.frame) ELSE None
      got == [seen |-> TRUE, msg |-> msg]
  IN IF r.kind = "NotReady"
     THEN Step("Undefined", "NotReady", item, q, buf, w, first)
     ELSE IF r.kind = "Err"
     THEN Step("Undefined", "IoError", item, q, buf, w, first)
     ELSE IF ~HeaderMatches(msg)
     THEN Step("Undefined", "FailedHandshake", item, r.rest, buf, w, got)
     ELSE ReplyBranch(TRUE, r.rest, buf, w, err, got, j, k)

AwaitBranch_eosAsIoError(item, q, st, buf, w, err, first, j, k) ==
  LET r == FramedPoll(q, st)
      msg == IF r.kind = "Frame" THEN Some(r.frame) ELSE None
      got == [seen |-> TRUE, msg |-> msg]
  IN IF r.kind = "NotReady"
     THEN Step("Await", "NotReady", item, q, buf, w, first)
     ELSE IF r.kind = "Err"
     THEN Step("Undefined", "IoError", item, q, buf, w, first)
     ELSE IF r.kind = "Eos"
     THEN Step("Undefined", "IoError", item, r.rest, buf, w, got)
     ELSE IF ~HeaderMatches(msg)
     THEN Step("Undefined", "FailedHandshake", item, r.rest, buf, w, got)
     ELSE ReplyBranch(TRUE, r.rest, buf, w, err, got, j, k)

AwaitBranch_errAsHandshake(item, q, st, buf, w, err, first, j, k) ==
  LET r == FramedPoll(q, st)
      msg == IF r.kind = "Frame" THEN Some(r.frame) ELSE None
      got == [seen |-> TRUE, msg |-> msg]
  IN IF r.kind = "NotReady"
     THEN Step("Await", "NotReady", item, q, buf, w, first)
     ELSE IF r.kind = "Err"
     THEN Step("Undefined", "FailedHandshake", item, q, buf, w, first)
     ELSE IF ~HeaderMatches(msg)
     THEN Step("Undefined", "FailedHandshake", item, r.rest, buf, w, got)
     ELSE ReplyBranch(TRUE, r.rest, buf, w, err, got, j, k)

\* ListenerFutureState::Await (listener.rs:144-163); on a matching header the
\* loop goes on into the Reply branch within the same call.
AwaitBranch(item, q, st, buf, w, err, first, j, k) ==
  LET r == FramedPoll(q, st)
      msg == IF r.kind = "Frame" THEN Some(r.frame) ELSE None
      got == [seen |-> TRUE, msg |-> msg]
  IN IF r.kind = "NotReady"
     THEN Step("Await", "NotReady", item, q, buf, w, first)
     ELSE IF r.kind = "Err"
     THEN Step("Undefined", "IoError", item, q, buf, w, first)
     ELSE IF ~HeaderMatches(msg)
     THEN Step("Undefined", "FailedHandshake", item, r.rest, buf, w, got)
     ELSE ReplyBranch(TRUE, r.rest, buf, w, err, got, j, k)

FuturePoll_restart(j, k) ==
  IF state = "Reply"
  THEN ReplyBranch(sendItem, inQ, outBuf, wire, outErr, firstRecv, j, k)
  ELSE AwaitBranch(sendItem, inQ, inState, outBuf, wire, outErr, firstRecv, j, k)

\* One call of ListenerFuture::poll (listener.rs:141-181): the state is
\* taken out (mem::replace with Undefined) and put back only on NotReady.
FuturePoll(j, k) ==
  IF state = "Await"
  THEN AwaitBranch(sendItem, inQ, inState, outBuf, wire, outErr, firstRecv, j, k)
  ELSE IF state = "Reply"
  THEN ReplyBranch(sendItem, inQ, outBuf, wire, outErr, firstRecv, j, k)
  ELSE Step("Undefined", "Panic", sendItem, inQ, outBuf, wire, firstRecv)

ListenerFuturePoll ==
  /\ ~panicked
  /\ \E j \in BOOLEAN, k \in 0..Len(outBuf) + 1 :
       LET o == FuturePoll(j, k)
       IN /\ state' = o.state
          /\ sendItem' = o.item
          /\ inQ' = o.inQ
          /\ outBuf' = o.buf
          /\ wire' = o.wire
          /\ firstRecv' = o.first
          /\ result' = IF o.ret \in {"NotReady", "Panic"} THEN result ELSE o.ret
          /\ suspended' = (suspended \/ o.ret = "NotReady")
          /\ panicked' = (o.ret = "Panic")
  /\ UNCHANGED <<inState, outErr, reqVars, sendVars, pairVars>>

\* --------------------------------------------------------------- the peer

\* "/multistream/1.0.0" without the newline, and "/multistream/2.0.0\n".
HeaderNoNewline == SubSeq(MSG_MULTISTREAM_1_0, 1, Len(MSG_MULTISTREAM_1_0) - 1)
HeaderOtherVersion == [MSG_MULTISTREAM_1_0 EXCEPT ![14] = 50]
\* "/a\n" and "/a\nb\n"
ProposeA == <<47, 97, 10>>
ProposeTwoLines == <<47, 97, 10, 98, 10>>

\* The frames an arbitrary peer sends: one of every shape the listener
\* tells apart.
PeerFrames ==
  {MSG_MULTISTREAM_1_0, HeaderNoNewline, HeaderOtherVersion, ProposeA,
   ProposeTwoLines, MSG_LS, <<>>}

PeerSend(f) ==
  /\ scenario = "free"
  /\ inState = "open"
  /\ Len(inQ) < MaxInFlight
  /\ inQ' = Append(inQ, f)
  /\ UNCHANGED <<inState, outErr, outBuf, wire, futVars, reqVars, sendVars, pairVars>>

PeerClose ==
  /\ scenario = "free"
  /\ inState = "open"
  /\ inState' = "eof"
  /\ UNCHANGED <<inQ, outErr, outBuf, wire, futVars, reqVars, sendVars, pairVars>>

\* The transport fails: writes fail from now on, and reads do unless the
\* inbound half has already ended.
TransportFail ==
  /\ scenario = "free"
  /\ ~outErr
  /\ outErr' = TRUE
  /\ inState' = IF inState = "open" THEN "err" ELSE inState
  /\ UNCHANGED <<inQ, outBuf, wire, futVars, reqVars, sendVars, pairVars>>

\* ---------------------------------------------------------------- Listener

\* What Listener::poll makes of the channel's answer (listener.rs:96-116).
StreamPoll_eosAsError(r) ==
  IF r.kind = "Frame" THEN DecodeRequest(r.frame)
  ELSE IF r.kind = "Eos" THEN Req("UnknownMessage", <<>>)
  ELSE IF r.kind = "NotReady" THEN Req("NotReady", <<>>)
  ELSE Req("IoError", <<>>)

StreamPoll(r) ==
  IF r.kind = "Frame" THEN DecodeRequest(r.frame)
  ELSE IF r.kind = "Eos" THEN Req("Eos", <<>>)
  ELSE IF r.kind = "NotReady" THEN Req("NotReady", <<>>)
  ELSE Req("IoError", <<>>)

\* A Listener value exists and its owner is running.
Established == result = "Listener" /\ ~panicked

ListenerPoll_alsoFlush ==
  /\ Established
  /\ LET r == FramedPoll(inQ, inState)
         ret == StreamPoll(r)
     IN /\ inQ' = r.rest
        /\ lastReq' = ret
        /\ lastFrame' = IF r.kind = "Frame" THEN Some(r.frame) ELSE None
        /\ eosSeen' = (eosSeen \/ r.kind = "Eos")
        /\ unknownSeen' = (unknownSeen \/ ret.kind = "UnknownMessage")
  /\ wire' = wire \o outBuf
  /\ outBuf' = <<>>
  /\ UNCHANGED <<inState, outErr, futVars, sendVars, pairVars>>

ListenerPoll_resync ==
  /\ Established
  /\ LET r == FramedPoll(inQ, inState)
         ret == StreamPoll(r)
     IN /\ inQ' = IF ret.kind = "UnknownMessage" /\ r.rest # <<>>
                  THEN Tail(r.rest) ELSE r.rest
        /\ lastReq' = ret
        /\ lastFrame' = IF r.kind = "Frame" THEN Some(r.frame) ELSE None
        /\ eosSeen' = (eosSeen \/ r.kind = "Eos")
        /\ unknownSeen' = (unknownSeen \/ ret.kind = "UnknownMessage")
  /\ UNCHANGED <<inState, outErr, outBuf, wire, futVars, sendVars, pairVars>>

\* <Listener as Stream>::poll (listener.rs:95-116)
ListenerPoll ==
  /\ Established
  /\ LET r == FramedPoll(inQ, inState)
         ret == StreamPoll(r)
     IN /\ inQ' = r.rest
        /\ lastReq' = ret
        /\ lastFrame' = IF r.kind = "Frame" THEN Some(r.frame) ELSE None
        /\ eosSeen' = (eosSeen \/ r.kind = "Eos")
        /\ unknownSeen' = (unknownSeen \/ ret.kind = "UnknownMessage")
  /\ UNCHANGED <<inState, outErr, outBuf, wire, futVars, sendVars, pairVars>>

Sent(ret, back, buf, w) == [ret |-> ret, back |-> back, buf |-> buf, wire |-> w]

StartSend_dropRefused(response, buf, w, err, j) ==
  LET e == ResponseEncode(response)
      s == FramedStartSend(buf, w, err, e.frame, j)
  IN IF ~e.ok THEN Sent("InvalidProtocolName", None, buf, w)
     ELSE IF s.res = "Err" THEN Sent("IoError", None, s.buf, s.wire)
     ELSE Sent("Ready", None, s.buf, s.wire)

StartSend_ignoreEncodeError(response, buf, w, err, j) ==
  LET e == ResponseEncode(response)
      frame == IF e.ok THEN e.frame ELSE response.name \o <<NL>>
      s == FramedStartSend(buf, w, err, frame, j)
  IN IF s.res = "Err" THEN Sent("IoError", None, s.buf, s.wire)
     ELSE IF s.res = "NotReady" THEN Sent("NotReady", Some(response), s.buf, s.wire)
     ELSE Sent("Ready", None, s.buf, s.wire)

StartSend_errAfterSend(response, buf, w, err, j) ==
  LET e == ResponseEncode(response)
      s == FramedStartSend(buf, w, err, IF e.ok THEN e.frame ELSE response.name, j)
  IN IF ~e.ok THEN Sent("InvalidProtocolName", None, s.buf, s.wire)
     ELSE IF s.res = "Err" THEN Sent("IoError", None, s.buf, s.wire)
     ELSE IF s.res = "NotReady" THEN Sent("NotReady", Some(response), s.buf, s.wire)
     ELSE Sent("Ready", None, s.buf, s.wire)

\* <Listener as Sink>::start_send (listener.rs:70-77): what it returns, the
\* response it hands back, and the channel afterwards.
StartSend(response, buf, w, err, j) ==
  LET e == ResponseEncode(response)
      s == FramedStartSend(buf, w, err, e.frame, j)
  IN IF ~e.ok THEN Sent("InvalidProtocolName", None, buf, w)
     ELSE IF s.res = "Err" THEN Sent("IoError", None, s.buf, s.wire)
     ELSE IF s.res = "NotReady" THEN Sent("NotReady", Some(response), s.buf, s.wire)
     ELSE Sent("Ready", None, s.buf, s.wire)

\* <Listener as Sink>::poll_complete (listener.rs:79-81)
PollComplete(buf, w, err, k) ==
  LET c == FramedPollComplete(buf, w, err, k)
  IN [ret |-> IF c.res = "Err" THEN "IoError" ELSE c.res,
      buf |-> c.buf, wire |-> c.wire]

\* "/a" and "invalid-proto" (listener.rs:204)
NameA == <<47, 97>>
INVALID_PROTO == <<105, 110, 118, 97, 108, 105, 100, 45, 112, 114, 111, 116, 111>>

Responses == {Protocol(NameA), Protocol(INVALID_PROTO), ProtocolNotAvailable}

\* The caller takes up a response to send.
CallerSubmit(r) ==
  /\ scenario = "free"
  /\ Established
  /\ held = None
  /\ nResp < MaxResponses
  /\ held' = Some(r)
  /\ nResp' = nResp + 1
  /\ refused' = FALSE
  /\ UNCHANGED <<chanVars, futVars, reqVars, lastSend, sentOk, pairVars>>

\* The caller calls start_send with the response it holds, and keeps what
\* is handed back.
ListenerStartSend ==
  /\ scenario = "free"
  /\ Established
  /\ held # None
  /\ \E j \in BOOLEAN :
       LET o == StartSend(held[1], outBuf, wire, outErr, j)
       IN /\ outBuf' = o.buf
          /\ wire' = o.wire
          /\ lastSend' = o.ret
          /\ held' = o.back
          /\ refused' = (refused \/ o.ret = "NotReady")
          /\ sentOk' = IF o.ret = "Ready" THEN Append(sentOk, held[1]) ELSE sentOk
  /\ UNCHANGED <<inQ, inState, outErr, futVars, reqVars, nResp, pairVars>>

ListenerPollComplete ==
  /\ scenario = "free"
  /\ Established
  /\ \E k \in 0..Len(outBuf) :
       LET c == PollComplete(outBuf, wire, outErr, k)
       IN /\ outBuf' = c.buf
          /\ wire' = c.wire
  /\ UNCHANGED <<inQ, inState, outErr, futVars, reqVars, sendVars, pairVars>>

\* ------------------------------------------------- dialer and acceptor pair

\* "/", "/a" and "/a\nb"
Candidates == {<<47>>, NameA, <<47, 97, 10, 98>>}

Outcome(kind, name) == [kind |-> kind, name |-> name]

\* The dialer's reading of a response frame.
DialerDecodeResponse(frame) ==
  IF Get0(frame) = Some(SLASH) /\ Last(frame) = Some(NL)
  THEN Outcome("Accept", SubSeq(frame, 1, Len(frame) - 1))
  ELSE IF frame = MSG_PROTOCOL_NA THEN Outcome("NotAvailable", <<>>)
  ELSE Outcome("UnknownMessage", <<>>)

\* The error the acceptor's side of the run has ended in, if any: the
\* handshake's, that of reading the request, or that of sending the response.
AcceptorError ==
  IF result \in {"FailedHandshake", "IoError"} THEN result
  ELSE IF lastReq.kind \in {"UnknownMessage", "IoError"} THEN lastReq.kind
  ELSE IF lastSend \in {"InvalidProtocolName", "IoError"} THEN lastSend
  ELSE "None"

DialerError == IF dState = "Failed" THEN dResult.kind ELSE "None"

\* server.join(client) (listener.rs:213): the first error of either side,
\* or Ok once both are done.
JointOutcome ==
  IF AcceptorError # "None" THEN AcceptorError
  ELSE IF DialerError # "None" THEN DialerError
  ELSE IF aAgreed # None /\ dState = "Done" THEN "Ok"
  ELSE "Pending"

DialerSendHeader ==
  /\ JointOutcome = "Pending"
  /\ dState = "SendingHeader"
  /\ inQ' = Append(inQ, MSG_MULTISTREAM_1_0)
  /\ dState' = "AwaitingHeaderEcho"
  /\ UNCHANGED <<inState, outErr, outBuf, wire, futVars, reqVars, sendVars,
                 scenario, dRead, dCand, dResult, aAgreed>>

DialerAwaitHeaderEcho ==
  /\ JointOutcome = "Pending"
  /\ dState = "AwaitingHeaderEcho"
  /\ dRead < Len(wire)
  /\ dRead' = dRead + 1
  /\ IF wire[dRead + 1] = MSG_MULTISTREAM_1_0
     THEN dState' = "Proposing" /\ dResult' = dResult
     ELSE dState' = "Failed" /\ dResult' = Outcome("HandshakeFailed", <<>>)
  /\ UNCHANGED <<chanVars, futVars, reqVars, sendVars, scenario, dCand, aAgreed>>

DialerPropose ==
  /\ JointOutcome = "Pending"
  /\ dState = "Proposing"
  /\ inQ' = Append(inQ, dCand \o <<NL>>)
  /\ dState' = "AwaitingResponse"
  /\ UNCHANGED <<inState, outErr, outBuf, wire, futVars, reqVars, sendVars,
                 scenario, dRead, dCand, dResult, aAgreed>>

DialerAwaitResponse ==
  /\ JointOutcome = "Pending"
  /\ dState = "AwaitingResponse"
  /\ dRead < Len(wire)
  /\ dRead' = dRead + 1
  /\ LET r == DialerDecodeResponse(wire[dRead + 1])
     IN IF r.kind = "Accept" /\ r.name = dCand
        THEN dState' = "Done" /\ dResult' = Outcome("Accepted", r.name)
        ELSE IF r.kind = "Accept"
        THEN dState' = "Failed" /\ dResult' = Outcome("ProtocolNameMismatch", r.name)
        ELSE IF r.kind = "NotAvailable"
        THEN dState' = "Done" /\ dResult' = r
        ELSE dState' = "Failed" /\ dResult' = r
  /\ UNCHANGED <<chanVars, futVars, reqVars, sendVars, scenario, dCand, aAgreed>>

\* The acceptor's run drives the handshake until it resolves ...
AcceptorListen ==
  /\ JointOutcome = "Pending"
  /\ result = "Pending"
  /\ ListenerFuturePoll

\* ... on the happy path reads requests until a proposal arrives ...
AcceptorNextRequest ==
  /\ JointOutcome = "Pending"
  /\ scenario = "happy"
  /\ lastReq.kind # "Protocol"
  /\ ListenerPoll

\* ... and answers: Accept of the proposed name on the happy path, Accept of
\* "invalid-proto" right after the handshake in tests::wrong_proto_name
\* (listener.rs:203-206).
AcceptorRespond ==
  /\ JointOutcome = "Pending"
  /\ scenario # "free"
  /\ Established
  /\ nResp = 0
  /\ scenario = "happy" => lastReq.kind = "Protocol"
  /\ held' = IF scenario = "happy" THEN Some(Protocol(lastReq.name))
             ELSE Some(Protocol(INVALID_PROTO))
  /\ nResp' = 1
  /\ refused' = FALSE
  /\ UNCHANGED <<chanVars, futVars, reqVars, lastSend, sentOk, pairVars>>

\* listener.send(response) (listener.rs:205): sink::Send::poll over the
\* Listener, start_send while the response is held, then poll_complete.
AcceptorSendPoll ==
  /\ JointOutcome = "Pending"
  /\ scenario # "free"
  /\ Established
  /\ held # None \/ (sentOk # <<>> /\ aAgreed = None)
  /\ \E j \in BOOLEAN, k \in 0..Len(outBuf) + 1 :
       LET o == IF held # None THEN StartSend(held[1], outBuf, wire, outErr, j)
                ELSE Sent("Ready", None, outBuf, wire)
           c == PollComplete(o.buf, o.wire, outErr, k)
           sent == IF held # None /\ o.ret = "Ready"
                   THEN Append(sentOk, held[1]) ELSE sentOk
       IN /\ held' = o.back
          /\ refused' = (refused \/ o.ret = "NotReady")
          /\ sentOk' = sent
          /\ IF o.ret # "Ready"
             THEN /\ outBuf' = o.buf /\ wire' = o.wire
                  /\ lastSend' = o.ret
                  /\ aAgreed' = aAgreed
             ELSE /\ outBuf' = c.buf /\ wire' = c.wire
                  /\ lastSend' = IF c.ret = "IoError" THEN "IoError" ELSE "Ready"
                  /\ aAgreed' = IF c.ret = "Ready"
                                THEN Some(sent[Len(sent)].name) ELSE aAgreed
  /\ UNCHANGED <<inQ, inState, outErr, futVars, reqVars, nResp,
                 scenario, dState, dRead, dCand, dResult>>

\* ------------------------------------------------------------------- specs

NoReq == Req("None", <<>>)

InitListener ==
  /\ inQ = <<>> /\ inState = "open" /\ outErr = FALSE
  /\ outBuf = <<>> /\ wire = <<>>
  /\ state = "Await" /\ sendItem = FALSE /\ result = "Pending"
  /\ suspended = FALSE /\ panicked = FALSE
  /\ firstRecv = [seen |-> FALSE, msg |-> None]
  /\ lastReq = NoReq /\ lastFrame = None
  /\ eosSeen = FALSE /\ unknownSeen = FALSE
  /\ held = None /\ nResp = 0 /\ refused = FALSE
  /\ lastSend = "None" /\ sentOk = <<>>

NoOutcome == Outcome("None", <<>>)

Init ==
  /\ InitListener
  /\ scenario = "free"
  /\ dState = "Idle" /\ dRead = 0 /\ dCand = <<>> /\ dResult = NoOutcome
  /\ aAgreed = None

Next ==
  \/ \E f \in PeerFrames : PeerSend(f)
  \/ PeerClose
  \/ TransportFail
  \/ ListenerFuturePoll
  \/ ListenerPoll
  \/ \E r \in Responses : CallerSubmit(r)
  \/ ListenerStartSend
  \/ ListenerPollComplete

Spec == Init /\ [][Next]_vars

\* An acceptor and a dialer over a reliable transport: the happy path, and
\* the run of tests::wrong_proto_name.
PairInit ==
  /\ InitListener
  /\ scenario \in {"happy", "wrong_proto_name"}
  /\ dState = "SendingHeader" /\ dRead = 0 /\ dCand \in Candidates
  /\ dResult = NoOutcome
  /\ aAgreed = None

PairNext ==
  \/ DialerSendHeader
  \/ DialerAwaitHeaderEcho
  \/ DialerPropose
  \/ DialerAwaitResponse
  \/ AcceptorListen
  \/ AcceptorNextRequest
  \/ AcceptorRespond
  \/ AcceptorSendPoll

PairSpec == PairInit /\ [][PairNext]_vars

\* An established Listener with one frame waiting, for every frame of up to
\* MaxLen bytes over '/', '\n', 'l' and 's'.
Alphabet == {SLASH, NL, 108, 115}
AllFrames == UNION {[1..n -> Alphabet] : n \in 0..MaxLen}

CodecInit ==
  /\ \E f \in AllFrames : inQ = <<f>>
  /\ inState \in {"open", "eof"}
  /\ outErr = FALSE /\ outBuf = <<>> /\ wire = <<MSG_MULTISTREAM_1_0>>
  /\ state = "Undefined" /\ sendItem = FALSE /\ result = "Listener"
  /\ suspended = FALSE /\ panicked = FALSE
  /\ firstRecv = [seen |-> TRUE, msg |-> Some(MSG_MULTISTREAM_1_0)]
  /\ lastReq = NoReq /\ lastFrame = None
  /\ eosSeen = FALSE /\ unknownSeen = FALSE
  /\ held = None /\ nResp = 0 /\ refused = FALSE
  /\ lastSend = "None" /\ sentOk = <<>>
  /\ scenario = "free"
  /\ dState = "Idle" /\ dRead = 0 /\ dCand = <<>> /\ dResult = NoOutcome
  /\ aAgreed = None

CodecNext == ListenerPoll

CodecSpec == CodecInit /\ [][CodecNext]_vars

\* An established Listener with up to MaxQueued frames of the peer already
\* queued, the peer sending more and closing.
OrderInit ==
  /\ inQ \in UNION {[1..n -> PeerFrames] : n \in 0..MaxQueued}
  /\ inState = "open"
  /\ outErr = FALSE /\ outBuf = <<>> /\ wire = <<MSG_MULTISTREAM_1_0>>
  /\ state = "Undefined" /\ sendItem = FALSE /\ result = "Listener"
  /\ suspended = FALSE /\ panicked = FALSE
  /\ firstRecv = [seen |-> TRUE, msg |-> Some(MSG_MULTISTREAM_1_0)]
  /\ lastReq = NoReq /\ lastFrame = None
  /\ eosSeen = FALSE /\ unknownSeen = FALSE
  /\ held = None /\ nResp = 0 /\ refused = FALSE
  /\ lastSend = "None" /\ sentOk = <<>>
  /\ scenario = "free"
  /\ dState = "Idle" /\ dRead = 0 /\ dCand = <<>> /\ dResult = NoOutcome
  /\ aAgreed = None

OrderNext ==
  \/ \E f \in PeerFrames : PeerSend(f)
  \/ PeerClose
  \/ ListenerPoll

OrderSpec == OrderInit /\ [][OrderNext]_vars

\* The handshake alone, driven by a caller that polls again after NotReady,
\* over a channel that in the end produces a frame, end-of-stream or an
\* error and in the end completes or fails the send.
ChannelProduces ==
  \/ \E f \in PeerFrames : PeerSend(f)
  \/ PeerClose
  \/ TransportFail

FuturePollCompletes == ListenerFuturePoll /\ result' # "Pending"

LiveNext ==
  \/ ChannelProduces
  \/ ListenerFuturePoll

LiveSpec ==
  /\ Init
  /\ [][LiveNext]_vars
  /\ WF_vars(ChannelProduces)
  /\ WF_vars(FuturePollCompletes)

\* ------------------------------------------------------------------ claims

\* C1 (Handshake gating): when the first frame the handshake receives is not
\* byte for byte the header literal, listen has failed with FailedHandshake:
\* no Listener exists, the future is spent and nothing was sent, whatever
\* number of NotReady polls came before the frame.
C1_HandshakeGating ==
  (firstRecv.seen /\ firstRecv.msg # None
     /\ firstRecv.msg[1] # MSG_MULTISTREAM_1_0)
  => (result = "FailedHandshake" /\ state = "Undefined" /\ Outbound = <<>>)

C1_Witness ==
  /\ firstRecv.msg = Some(HeaderNoNewline)
  /\ suspended
  /\ result = "FailedHandshake"

\* C2 (Handshake ordering): the listener sends nothing before it has
\* received the exact header; the first frame it sends is the header; a
\* Listener exists only once the header echo is written out; and before a
\* Listener exists no request has been decoded and no response submitted.
C2_HandshakeOrdering ==
  /\ Outbound # <<>> =>
       /\ firstRecv.msg = Some(MSG_MULTISTREAM_1_0)
       /\ Outbound[1] = MSG_MULTISTREAM_1_0
  /\ result = "Listener" =>
       /\ firstRecv.msg = Some(MSG_MULTISTREAM_1_0)
       /\ wire # <<>>
       /\ wire[1] = MSG_MULTISTREAM_1_0
  /\ result # "Listener" =>
       /\ lastReq = NoReq /\ lastFrame = None
       /\ lastSend = "None" /\ nResp = 0 /\ sentOk = <<>>
       /\ Len(Outbound) <= 1

C2_Witness ==
  /\ result = "Listener"
  /\ suspended
  /\ lastReq.kind = "Protocol"
  /\ Len(sentOk) = 1
  /\ Len(wire) = 2

\* C3 (Request decode rule): a frame whose first byte is '/' and whose last
\* byte is newline yields Protocol with the frame minus its last byte; any
\* other frame yields ListProtocols if it is "ls\n" and UnknownMessage if it
\* is not; and only a received frame yields any of the three.
C3_RequestDecodeRule ==
  IF lastFrame = None
  THEN lastReq.kind \notin {"Protocol", "ListProtocols", "UnknownMessage"}
  ELSE LET f == lastFrame[1]
           proposal == Len(f) > 0 /\ f[1] = SLASH /\ f[Len(f)] = NL
       IN IF proposal
          THEN lastReq = Req("Protocol", [i \in 1..(Len(f) - 1) |-> f[i]])
          ELSE IF f = <<108, 115, 10>>
          THEN lastReq = Req("ListProtocols", <<>>)
          ELSE lastReq = Req("UnknownMessage", <<>>)

C3_Witness ==
  /\ lastFrame = Some(<<SLASH, 108, NL>>)
  /\ lastReq = Req("Protocol", <<SLASH, 108>>)

\* C4 (UnknownMessage is permanent), as claimed: once Listener::poll has
\* failed with UnknownMessage, no later call returns a decoded request.
C4_UnknownMessagePermanent ==
  unknownSeen => lastReq.kind \notin {"Protocol", "ListProtocols"}

\* C5 (Clean end-of-stream): once the channel has reported end-of-stream to
\* Listener::poll, that call and every later one return end-of-stream, not
\* an error and not a request.
C5_CleanEndOfStream ==
  eosSeen => (lastReq = Req("Eos", <<>>) /\ lastFrame = None)

C5_Witness ==
  /\ eosSeen
  /\ unknownSeen
  /\ outErr
  /\ lastReq.kind = "Eos"

EncodedFrames(responses) ==
  [i \in 1..Len(responses) |-> ResponseEncode(responses[i]).frame]

\* C6 (Lossless retry on backpressure): a start_send answered NotReady hands
\* back the response it was given and leaves the channel's outbound frames as
\* they were; and the frames the channel has accepted are always the header
\* echo followed by one frame for each response answered Ready, in order, so
\* a response re-submitted until accepted is sent exactly once.
C6_LosslessRetry ==
  /\ [](result = "Listener" =>
          Outbound = <<MSG_MULTISTREAM_1_0>> \o EncodedFrames(sentOk))
  /\ [][(ListenerStartSend /\ lastSend' = "NotReady")
          => (held' = held /\ outBuf' = outBuf /\ wire' = wire
              /\ sentOk' = sentOk)]_vars

C6_Witness ==
  /\ refused
  /\ lastSend = "Ready"
  /\ held = None
  /\ sentOk = <<Protocol(NameA)>>
  /\ Outbound = <<MSG_MULTISTREAM_1_0, ProposeA>>

\* Request::encode, for the requests a dialer can send.
RequestEncode(request) ==
  IF request.kind = "Protocol" THEN request.name \o <<NL>> ELSE MSG_LS

WellFormedNames ==
  {n \in AllFrames : Len(n) > 0 /\ Len(n) < MaxLen /\ n[1] = SLASH
                     /\ \A i \in 1..Len(n) : n[i] # NL}

WellFormedRequests ==
  {Req("Protocol", n) : n \in WellFormedNames} \cup {Req("ListProtocols", <<>>)}

\* C7 (Decode/encode consistency): when the frame Listener::poll received is
\* the encoding of Protocol{n}, n starting with '/' and holding no newline,
\* or of ListProtocols, the request it returned is that request.
C7_DecodeEncodeConsistency ==
  \A request \in WellFormedRequests :
     lastFrame = Some(RequestEncode(request)) => lastReq = request

C7_Witness ==
  /\ lastFrame = Some(RequestEncode(Req("Protocol", <<SLASH, 108>>)))
  /\ lastReq.kind = "Protocol"

\* C8 (Mismatch detection), as claimed: the run of tests::wrong_proto_name
\* ends with the dialer failed with ProtocolNameMismatch.
C8_DialerDetectsMismatch ==
  (scenario = "wrong_proto_name" /\ JointOutcome # "Pending")
  => (dState = "Failed" /\ dResult.kind = "ProtocolNameMismatch")

\* C8, amended: the run of tests::wrong_proto_name never ends in success; it
\* ends in InvalidProtocolName, returned by the acceptor's own start_send
\* for Accept{"invalid-proto"}: nothing but the header echo was sent, no
\* request was read, and the dialer has neither failed nor finished.
C8_AcceptorRejectsName ==
  scenario = "wrong_proto_name" =>
    /\ JointOutcome \in {"Pending", "InvalidProtocolName"}
    /\ aAgreed = None
    /\ lastReq = NoReq
    /\ Len(Outbound) <= 1
    /\ dState \notin {"Failed", "Done"}
    /\ JointOutcome = "InvalidProtocolName" =>
         /\ lastSend = "InvalidProtocolName"
         /\ Outbound = <<MSG_MULTISTREAM_1_0>>

C8_Witness ==
  /\ scenario = "wrong_proto_name"
  /\ JointOutcome = "InvalidProtocolName"
  /\ dState = "AwaitingResponse"

\* C9 (Happy path agreement): on the happy path neither side fails, the
\* acceptor decodes exactly Protocol{n} for the proposed n, and the name
\* either side finishes with is n; the run stops only when both have.
C9_HappyPathAgreement ==
  scenario = "happy" =>
    /\ JointOutcome \in {"Pending", "Ok"}
    /\ lastReq.kind \notin {"None", "NotReady"} => lastReq = Req("Protocol", dCand)
    /\ aAgreed # None => aAgreed = Some(dCand)
    /\ dState = "Done" => dResult = Outcome("Accepted", dCand)
    /\ JointOutcome = "Ok" => Outbound = <<MSG_MULTISTREAM_1_0, dCand \o <<NL>> >>
    /\ ~(ENABLED PairNext) => JointOutcome = "Ok"

C9_Witness ==
  /\ scenario = "happy"
  /\ JointOutcome = "Ok"
  /\ refused
  /\ dCand = NameA
  /\ aAgreed = Some(NameA)
  /\ dResult = Outcome("Accepted", NameA)

\* The channel reports a transport error to this call of ListenerFuture::poll.
ErrorReported ==
  \/ state = "Await" /\ inState = "err"
  \/ state = "Reply" /\ outErr

\* C10 (Transport errors are fatal and not retried): a poll of listen that
\* the channel answers with an error, while awaiting the header or while
\* sending the echo, fails with IoError (not FailedHandshake), consumes and
\* sends nothing and leaves the future spent; from then on no Listener
\* exists, no frame is taken from the channel and none is sent.
C10_TransportErrorFatal ==
  /\ [][(ListenerFuturePoll /\ ErrorReported)
          => (result' = "IoError" /\ state' = "Undefined"
              /\ inQ' = inQ /\ outBuf' = outBuf /\ wire' = wire)]_vars
  /\ [][result = "IoError"
          => (result' = "IoError" /\ state' = "Undefined"
              /\ outBuf' = outBuf /\ wire' = wire
              /\ Len(inQ') >= Len(inQ))]_vars
  /\ [](result = "IoError" => outErr)

C10_Witness ==
  /\ result = "IoError"
  /\ firstRecv.msg = Some(MSG_MULTISTREAM_1_0)
  /\ suspended
  /\ panicked

\* C11 (Polled-after-completion guard): a poll of listen after it has
\* produced its outcome panics, which is none of the protocol errors: the
\* outcome stays what it was (no second Listener, no error value), and the
\* call takes no frame from the channel and hands none to it.
C11_PolledAfterCompletion ==
  [][(ListenerFuturePoll /\ result # "Pending")
       => (/\ panicked' /\ ~panicked
           /\ result' = result
           /\ state' = "Undefined"
           /\ firstRecv' = firstRecv
           /\ inQ' = inQ /\ outBuf' = outBuf /\ wire' = wire)]_vars

C11_Witness ==
  /\ panicked
  /\ result = "Listener"
  /\ inQ # <<>>

\* C12 (Well-formed proposal names), as claimed: the name of every Protocol
\* request Listener::poll returns is non-empty, begins with '/' and holds no
\* newline byte.
C12_WellFormedNames ==
  lastReq.kind = "Protocol" =>
    /\ Len(lastReq.name) > 0
    /\ lastReq.name[1] = SLASH
    /\ \A i \in 1..Len(lastReq.name) : lastReq.name[i] # NL

\* C13 (Arrival order, one message per frame): a call of Listener::poll
\* that finds frames queued takes exactly the oldest one, leaves the others
\* queued in their order and returns the decoding of that one frame; a call
\* that finds none (NotReady, end-of-stream) takes nothing.
C13_ArrivalOrder ==
  [][ListenerPoll =>
       IF inState # "err" /\ inQ # <<>>
       THEN /\ inQ' = Tail(inQ)
            /\ lastFrame' = Some(Head(inQ))
            /\ lastReq' = DecodeRequest(Head(inQ))
       ELSE /\ inQ' = inQ
            /\ lastFrame' = None
            /\ lastReq'.kind \in {"NotReady", "Eos", "IoError"}]_vars

C13_Witness ==
  /\ unknownSeen
  /\ lastFrame = Some(MSG_LS)
  /\ lastReq = Req("ListProtocols", <<>>)
  /\ inQ = <<ProposeA>>

\* C14 (Single identical echo): once the handshake has yielded a Listener,
\* the frames sent are the header literal, sent once and flushed, followed
\* only by the caller's own responses; a handshake that failed while awaiting
\* the header (wrong first frame, end-of-stream, transport error before any
\* frame) has sent no frame.
C14_SingleIdenticalEcho ==
  /\ result = "Listener" =>
       /\ Len(Outbound) = 1 + Len(sentOk)
       /\ Outbound[1] = MSG_MULTISTREAM_1_0
       /\ wire # <<>>
  /\ result = "FailedHandshake" => Outbound = <<>>
  /\ (result = "IoError" /\ ~firstRecv.seen) => Outbound = <<>>

C14_Witness ==
  /\ result = "Listener" /\ suspended
  /\ sentOk = <<>>
  /\ wire = <<MSG_MULTISTREAM_1_0>> /\ outBuf = <<>>

\* The phase of the handshake as a rank: Await, Reply, completed.
PhaseRank(st, res) ==
  IF res # "Pending" THEN 2 ELSE IF st = "Await" THEN 0 ELSE 1

\* C15 (Suspension keeps the phase): a call that finds no frame while in
\* Await, or the send incomplete while in Reply, returns NotReady and stays
\* in its phase; the phase never moves backwards; the header frame is taken
\* from the channel once and the echo is handed to the channel once, however
\* many calls returned NotReady.
C15_SuspensionKeepsPhase ==
  /\ [](result = "Pending" =>
          /\ state \in {"Await", "Reply"}
          /\ state = "Await" => (~firstRecv.seen /\ Outbound = <<>>)
          /\ state = "Reply" =>
               /\ firstRecv = [seen |-> TRUE, msg |-> Some(MSG_MULTISTREAM_1_0)]
               /\ Outbound = IF sendItem THEN <<>> ELSE <<MSG_MULTISTREAM_1_0>>)
  /\ [][/\ PhaseRank(state', result') >= PhaseRank(state, result)
        /\ firstRecv.seen => firstRecv' = firstRecv
        /\ (ListenerFuturePoll /\ firstRecv.seen) => inQ' = inQ
        /\ (ListenerFuturePoll /\ state = "Await"
              /\ FramedPoll(inQ, inState).kind = "NotReady")
             => (/\ state' = "Await" /\ result' = "Pending" /\ suspended'
                 /\ inQ' = inQ /\ outBuf' = outBuf /\ wire' = wire)
        /\ (ListenerFuturePoll /\ state = "Reply" /\ result' = "Pending")
             => (/\ state' = "Reply" /\ suspended'
                 /\ Len(wire' \o outBuf') <= 1)]_vars

C15_Witness ==
  /\ result = "Pending" /\ state = "Reply" /\ suspended
  /\ ~sendItem
  /\ outBuf = <<MSG_MULTISTREAM_1_0>> /\ wire = <<>>

C17_EncodingFailureSendsNothing ==
  [][ListenerStartSend =>
       LET r == held[1]
           bad == r.kind = "Protocol" /\ (r.name = <<>> \/ r.name[1] # SLASH)
       IN /\ bad => /\ lastSend' = "InvalidProtocolName"
                    /\ outBuf' = outBuf /\ wire' = wire
                    /\ sentOk' = sentOk
                    /\ held' = None
          /\ lastSend' = "InvalidProtocolName" => bad]_vars

C17_Witness ==
  /\ scenario = "free"
  /\ lastSend = "InvalidProtocolName"
  /\ held = None /\ sentOk = <<>>
  /\ Outbound = <<MSG_MULTISTREAM_1_0>>

\* C18 (End-of-stream before the header): when the channel ends before it
\* has delivered any frame, the handshake has failed with FailedHandshake,
\* not with IoError; no Listener exists, so no request was ever read and no
\* clean end-of-stream reported, and no frame was sent.
C18_EosBeforeHeader ==
  (firstRecv.seen /\ firstRecv.msg = None) =>
    /\ result = "FailedHandshake"
    /\ state = "Undefined"
    /\ Outbound = <<>>
    /\ lastReq = NoReq /\ ~eosSeen
    /\ sentOk = <<>>

C18_Witness ==
  /\ firstRecv = [seen |-> TRUE, msg |-> None]
  /\ result = "FailedHandshake"
  /\ suspended /\ inState = "eof" /\ ~outErr

\* C19 (Independence of the two directions): on an established Listener,
\* poll leaves the outbound buffer, the written frames and the sender's
\* record as they were; start_send, whatever it returns, and poll_complete
\* leave the queued inbound frames and the record of requests as they were.
\* A response can be sent before any request has been read.
C19_DirectionsIndependent ==
  [][/\ ListenerPoll =>
          /\ outBuf' = outBuf /\ wire' = wire /\ outErr' = outErr
          /\ UNCHANGED sendVars
     /\ (ListenerStartSend \/ ListenerPollComplete) =>
          /\ inQ' = inQ /\ inState' = inState
          /\ UNCHANGED reqVars]_vars

C19_Witness ==
  /\ scenario = "free"
  /\ sentOk = <<Protocol(NameA)>>
  /\ lastReq = NoReq
  /\ inQ = <<ProposeA>>
  /\ outBuf = <<ProposeA>>

====
